---- MODULE Spec2Model ----
(***************************************************************************)
(* Line-crossing counting of FootfallCounter (src/footFallCounter.py).     *)
(*                                                                         *)
(* The counting state of one FootfallCounter object is roi_line_y,         *)
(* entry_count, exit_count, counted_ids and track_history.  One step of    *)
(* the model is one iteration of the loop over the tracked boxes of a      *)
(* frame (process_frame, lines 70-92): a frame with k tracked boxes is k   *)
(* consecutive steps, a frame without track ids changes nothing.  The      *)
(* detector, the tracker, the video I/O and the drawing do not touch the   *)
(* counting state and are not modelled.                                    *)
(***************************************************************************)
EXTENDS Integers, Sequences, FiniteSets, TLC

(***************************************************************************)
(* Bounds of the model and program constants.                              *)
(***************************************************************************)
\* frame height in pixels reported by the capture (self.height)
MaxHeight == 4
\* loop iterations (observations) explored per run of Spec
MaxObs == 4
\* loop iterations explored per FootfallCounter object in SpecSessions
MaxSessionObs == 2
\* frames explored per run of SpecCap (more than HistoryCap)
MaxCapObs == 32
\* FootfallCounter objects constructed one after the other in SpecSessions
MaxSessions == 2
\* len(track) > 30
HistoryCap == 30

\* track ids handed out by the tracker
TrackIds == {1, 2}

\* --roi values tried, as fractions <<numerator, denominator>> (exact floats)
RoiPositions == {<<1, 4>>, <<1, 2>>, <<5, 4>>}

FrameHeights == {MaxHeight}

\* bounding boxes <<x1, y1, x2, y2>> after map(int, box): squares of side 0
\* or 1 at the left border, anywhere down the frame
Boxes ==
  {<<0, y1, w, y1 + w>> : y1 \in 0..MaxHeight, w \in 0..1}

VARIABLES
  height,         \* self.height
  roi_position,   \* self.roi_position, a fraction <<n, d>>
  roi_line_y,     \* self.roi_line_y
  entry_count,    \* self.entry_count
  exit_count,     \* self.exit_count
  counted_ids,    \* self.counted_ids
  track_history,  \* self.track_history: a function whose DOMAIN is the keys
  crossing,       \* the local `crossing` of the last loop iteration
  last_id,        \* history: track_id of the last loop iteration (0: none)
  last_box,       \* history: the last box seen for each track id
  observed,       \* history: every position appended for each track id
  nevents,        \* history: crossings reported for each track id
  nobs,           \* history: loop iterations executed by this object
  session,        \* history: which FootfallCounter object this is
  prev_counted    \* history: ids counted by earlier FootfallCounter objects

vars ==
  <<height, roi_position, roi_line_y, entry_count, exit_count, counted_ids,
    track_history, crossing, last_id, last_box, observed, nevents, nobs,
    session, prev_counted>>

(***************************************************************************)
(* Pure helpers, one per expression of the source.                         *)
(***************************************************************************)

\* int(self.height * roi_position), for non-negative operands
roi_line(h, roi) == (h * roi[1]) \div roi[2]

Center_RoundUp(a, b) == (a + b + 1) \div 2
\* (x1 + x2) // 2 and (y1 + y2) // 2
Center(a, b) == (a + b) \div 2

AppendCapped_PopAtCap(track, pos) ==
  LET appended == Append(track, pos)
  IN  IF Len(appended) >= HistoryCap THEN Tail(appended) ELSE appended
\* track.append((cx, cy)); if len(track) > 30: track.pop(0)
AppendCapped(track, pos) ==
  LET appended == Append(track, pos)
  IN  IF Len(appended) > HistoryCap THEN Tail(appended) ELSE appended

ShouldEvaluate_NoDedupe(track, track_id, counted) == Len(track) >= 2
\* len(track) >= 2 and track_id not in self.counted_ids
ShouldEvaluate(track, track_id, counted) ==
  Len(track) >= 2 /\ track_id \notin counted

IsEntry_Strict(prev_cy, curr_cy, line) == prev_cy < line /\ curr_cy > line
\* prev_cy < self.roi_line_y and curr_cy >= self.roi_line_y
IsEntry(prev_cy, curr_cy, line) == prev_cy < line /\ curr_cy >= line

IsExit_FromLine(prev_cy, curr_cy, line) == prev_cy >= line /\ curr_cy <= line
\* prev_cy > self.roi_line_y and curr_cy <= self.roi_line_y
IsExit(prev_cy, curr_cy, line) == prev_cy > line /\ curr_cy <= line

Increment_Twice(count) == count + 2
\* self.entry_count += 1 / self.exit_count += 1
Increment(count) == count + 1

AddCounted_Forget(counted, track_id) == counted
\* self.counted_ids.add(track_id)
AddCounted(counted, track_id) == counted \cup {track_id}

StoreTrack_AllKeys(history, track_id, track) ==
  [k \in DOMAIN history \cup {track_id} |-> track]
\* track = self.track_history[track_id] (defaultdict: creates the key) and
\* the in-place mutation of that list
StoreTrack(history, track_id, track) ==
  [k \in DOMAIN history \cup {track_id} |->
     IF k = track_id THEN track ELSE history[k]]

\* self.track_history[track_id] of a defaultdict(lambda: [])
GetTrack(history, track_id) ==
  IF track_id \in DOMAIN history THEN history[track_id] ELSE <<>>

\* Entries / Exits / Net Flow as printed by run()
summary == <<entry_count, exit_count, entry_count - exit_count>>

(***************************************************************************)
(* Construction: FootfallCounter.__init__                                  *)
(***************************************************************************)
Construct(h, roi) ==
  /\ height = h
  /\ roi_position = roi
  /\ roi_line_y = roi_line(h, roi)
  /\ entry_count = 0
  /\ exit_count = 0
  /\ counted_ids = {}
  /\ track_history = <<>>
  /\ crossing = "NONE"
  /\ last_id = 0
  /\ last_box = <<>>
  /\ observed = [t \in TrackIds |-> <<>>]
  /\ nevents = [t \in TrackIds |-> 0]

Init ==
  /\ \E h \in FrameHeights, roi \in RoiPositions : Construct(h, roi)
  /\ nobs = 0
  /\ session = 1
  /\ prev_counted = {}

(***************************************************************************)
(* One iteration of `for box, track_id in zip(boxes, track_ids)`.          *)
(***************************************************************************)
process_box(track_id, box) ==
  LET cx == Center(box[1], box[3])
      cy == Center(box[2], box[4])
      track == AppendCapped(GetTrack(track_history, track_id), <<cx, cy>>)
      evaluate == ShouldEvaluate(track, track_id, counted_ids)
      prev_cy == track[Len(track) - 1][2]
      curr_cy == track[Len(track)][2]
      result == IF evaluate /\ IsEntry(prev_cy, curr_cy, roi_line_y)
                  THEN "ENTRY"
                ELSE IF evaluate /\ IsExit(prev_cy, curr_cy, roi_line_y)
                  THEN "EXIT"
                ELSE "NONE"
  IN  /\ track_history' = StoreTrack(track_history, track_id, track)
      /\ crossing' = result
      /\ entry_count' =
           IF result = "ENTRY" THEN Increment(entry_count) ELSE entry_count
      /\ exit_count' =
           IF result = "EXIT" THEN Increment(exit_count) ELSE exit_count
      /\ counted_ids' =
           IF result # "NONE" THEN AddCounted(counted_ids, track_id)
           ELSE counted_ids
      /\ last_id' = track_id
      /\ last_box' = [k \in DOMAIN last_box \cup {track_id} |->
                        IF k = track_id THEN box ELSE last_box[k]]
      /\ observed' = [observed EXCEPT ![track_id] = Append(@, <<cx, cy>>)]
      /\ nevents' = [nevents EXCEPT
                       ![track_id] = IF result # "NONE" THEN @ + 1 ELSE @]
      /\ nobs' = nobs + 1
      /\ UNCHANGED <<height, roi_position, roi_line_y, session, prev_counted>>

\* the tracker reports any track id with any box inside the frame
Feed(limit) ==
  /\ nobs < limit
  /\ \E track_id \in TrackIds, box \in Boxes :
       /\ box[4] <= height
       /\ process_box(track_id, box)

Observe == Feed(MaxObs)

Next == Observe

Spec == Init /\ [][Next]_vars

(***************************************************************************)
(* Sessions: main() builds one FootfallCounter per run of the program; a   *)
(* fresh counting session is a new object, built by __init__ again.        *)
(***************************************************************************)
NewCounter_KeepsCounted ==
  /\ session < MaxSessions
  /\ \E h \in FrameHeights, roi \in RoiPositions :
       /\ height' = h
       /\ roi_position' = roi
       /\ roi_line_y' = roi_line(h, roi)
  /\ entry_count' = 0
  /\ exit_count' = 0
  /\ track_history' = <<>>
  /\ session' = session + 1
  /\ prev_counted' = prev_counted \cup counted_ids
  /\ crossing' = "NONE"
  /\ last_id' = 0
  /\ last_box' = <<>>
  /\ observed' = [t \in TrackIds |-> <<>>]
  /\ nevents' = [t \in TrackIds |-> 0]
  /\ nobs' = 0
  /\ UNCHANGED counted_ids
\* counter = FootfallCounter(args.video, args.roi, args.confidence)
NewCounter ==
  /\ session < MaxSessions
  /\ \E h \in FrameHeights, roi \in RoiPositions :
       /\ height' = h
       /\ roi_position' = roi
       /\ roi_line_y' = roi_line(h, roi)
  /\ entry_count' = 0
  /\ exit_count' = 0
  /\ counted_ids' = {}
  /\ track_history' = <<>>
  /\ session' = session + 1
  /\ prev_counted' = prev_counted \cup counted_ids
  /\ crossing' = "NONE"
  /\ last_id' = 0
  /\ last_box' = <<>>
  /\ observed' = [t \in TrackIds |-> <<>>]
  /\ nevents' = [t \in TrackIds |-> 0]
  /\ nobs' = 0

ObserveSession == Feed(MaxSessionObs)

NextSessions == ObserveSession \/ NewCounter

SpecSessions == Init /\ [][NextSessions]_vars

(***************************************************************************)
(* Long runs: every frame lists all tracks in tracker order; each track    *)
(* walks down the frame (it stays where it is or jumps to the bottom), and *)
(* x is the sample number of the track so that every position is distinct. *)
(***************************************************************************)
CapYs(track_id) ==
  LET seen == observed[track_id]
  IN  IF seen = <<>> THEN {0, height}
      ELSE {seen[Len(seen)][2], height}

NextInFrame == IF last_id + 1 \in TrackIds THEN last_id + 1 ELSE 1

ObserveCap ==
  /\ nobs < MaxCapObs * Cardinality(TrackIds)
  /\ \E y \in CapYs(NextInFrame) :
       LET n == Len(observed[NextInFrame])
       IN  process_box(NextInFrame, <<n, y, n, y>>)

NextCap == ObserveCap

SpecCap == Init /\ [][NextCap]_vars

(***************************************************************************)
(* Vocabulary of the properties.  These restate the specification's rule   *)
(* on plain numbers; they are not the program's code.                      *)
(***************************************************************************)
ObsStep == nobs' = nobs + 1

EntryRule(prev_y, curr_y, line) == prev_y < line /\ curr_y >= line
ExitRule(prev_y, curr_y, line) == prev_y > line /\ curr_y <= line

\* y of the i-th entry of a sequence of positions
YAt(seq, i) == seq[i][2]

\* the last two entries of seq exist and satisfy the ENTRY / EXIT rule
EndsInEntry(seq, line) ==
  Len(seq) >= 2 /\ EntryRule(YAt(seq, Len(seq) - 1), YAt(seq, Len(seq)), line)
EndsInExit(seq, line) ==
  Len(seq) >= 2 /\ ExitRule(YAt(seq, Len(seq) - 1), YAt(seq, Len(seq)), line)

RECURSIVE SumEvents(_, _)
SumEvents(f, S) ==
  IF S = {} THEN 0
  ELSE LET t == CHOOSE x \in S : TRUE IN f[t] + SumEvents(f, S \ {t})

Min(a, b) == IF a < b THEN a ELSE b

Cleared ==
  /\ track_history = <<>>
  /\ counted_ids = {}
  /\ entry_count = 0
  /\ exit_count = 0
  /\ summary = <<0, 0, 0>>

(***************************************************************************)
(* C1  At-most-once counting: with no reset, every track_id causes at most *)
(* one crossing event and one counter increment in total; a counted        *)
(* track_id stays counted, and no later observation of it changes          *)
(* entry_count or exit_count, however often it crosses the line again.     *)
(***************************************************************************)
C1_AtMostOnce ==
  [][ /\ \A t \in TrackIds : nevents'[t] <= 1
      /\ entry_count' + exit_count' = SumEvents(nevents', TrackIds)
      /\ counted_ids \subseteq counted_ids'
      /\ (ObsStep /\ last_id' \in counted_ids)
           => /\ crossing' = "NONE"
              /\ entry_count' = entry_count
              /\ exit_count' = exit_count ]_vars

\* a counted track crosses the line again and nothing is reported
C1_Witness ==
  /\ last_id \in counted_ids
  /\ Len(observed[last_id]) >= 3
  /\ crossing = "NONE"
  /\ \/ EndsInEntry(observed[last_id], roi_line_y)
     \/ EndsInExit(observed[last_id], roi_line_y)

(***************************************************************************)
(* C2  Direction rule: an observation is an ENTRY exactly when the history *)
(* (after the append) has at least 2 entries, the track is not counted,    *)
(* prev_y < line_y and curr_y >= line_y; an EXIT exactly when it has at    *)
(* least 2 entries, the track is not counted, prev_y > line_y and          *)
(* curr_y <= line_y; otherwise there is no event.  ENTRY adds 1 to         *)
(* entry_count, EXIT adds 1 to exit_count, both add the id to the counted  *)
(* set.                                                                    *)
(***************************************************************************)
C2_DirectionRule ==
  [][ ObsStep =>
        LET t == last_id'
            h == track_history'[t]
            fresh == t \notin counted_ids
        IN  /\ crossing' \in {"ENTRY", "EXIT", "NONE"}
            /\ crossing' = "ENTRY" <=> (fresh /\ EndsInEntry(h, roi_line_y))
            /\ crossing' = "EXIT" <=> (fresh /\ EndsInExit(h, roi_line_y))
            /\ crossing' = "ENTRY" =>
                 /\ entry_count' = entry_count + 1
                 /\ counted_ids' = counted_ids \cup {t}
            /\ crossing' = "EXIT" =>
                 /\ exit_count' = exit_count + 1
                 /\ counted_ids' = counted_ids \cup {t} ]_vars

\* both directions have been reported, one of them on the line itself
C2_Witness ==
  /\ entry_count >= 1
  /\ exit_count >= 1
  /\ crossing # "NONE"
  /\ YAt(observed[last_id], Len(observed[last_id])) = roi_line_y

(***************************************************************************)
(* C3  History cap: every observation (also of a counted track) appends    *)
(* the position at the end of the track's history; after every observation *)
(* every history has at most 30 entries and is the most recent min(n, 30)  *)
(* positions observed for the track, oldest evicted first; more than 30    *)
(* positions never stop the counter.                                       *)
(***************************************************************************)
C3_HistoryCap ==
  /\ DOMAIN track_history = {t \in TrackIds : observed[t] # <<>>}
  /\ \A t \in DOMAIN track_history :
       LET n == Len(observed[t])
           m == Min(n, 30)
       IN  /\ Len(track_history[t]) <= 30
           /\ track_history[t] = SubSeq(observed[t], n - m + 1, n)
           /\ track_history[t][Len(track_history[t])] =
                <<(last_box[t][1] + last_box[t][3]) \div 2,
                  (last_box[t][2] + last_box[t][4]) \div 2>>
  /\ nobs < MaxCapObs * Cardinality(TrackIds) => ENABLED ObserveCap

\* a counted track has been observed more than 30 times
C3_Witness ==
  \E t \in counted_ids :
    /\ Len(observed[t]) > 30
    /\ Len(track_history[t]) = 30
    /\ observed[t][1] # track_history[t][1]

(***************************************************************************)
(* C4  Independence across tracks: observing track A leaves the history    *)
(* and the counted-set membership of every other track unchanged; whether  *)
(* an observation of a track yields an event depends only on that track's  *)
(* own observations (it is the first crossing in its own sequence); two    *)
(* tracks crossing in opposite directions give entry_count = 1 and         *)
(* exit_count = 1.                                                         *)
(***************************************************************************)
\* the positions of one track alone: no pair before the last one crosses
NoEarlierCrossing(seq, line) ==
  \A i \in 1..(Len(seq) - 2) :
    /\ ~EntryRule(YAt(seq, i), YAt(seq, i + 1), line)
    /\ ~ExitRule(YAt(seq, i), YAt(seq, i + 1), line)

OwnResult(seq, line) ==
  IF ~NoEarlierCrossing(seq, line) THEN "NONE"
  ELSE IF EndsInEntry(seq, line) THEN "ENTRY"
  ELSE IF EndsInExit(seq, line) THEN "EXIT"
  ELSE "NONE"

C4_Independence ==
  [][ ObsStep =>
        /\ \A b \in TrackIds \ {last_id'} :
             /\ (b \in DOMAIN track_history) <=> (b \in DOMAIN track_history')
             /\ b \in DOMAIN track_history => track_history'[b] = track_history[b]
             /\ (b \in counted_ids) <=> (b \in counted_ids')
        /\ crossing' = OwnResult(observed'[last_id'], roi_line_y)
        /\ \A a, b \in TrackIds :
             ( /\ a # b
               /\ \A t \in TrackIds \ {a, b} : observed'[t] = <<>>
               /\ Len(observed'[a]) = 2 /\ EndsInEntry(observed'[a], roi_line_y)
               /\ Len(observed'[b]) = 2 /\ EndsInExit(observed'[b], roi_line_y) )
             => (entry_count' = 1 /\ exit_count' = 1) ]_vars

\* two tracks, two observations each, opposite directions, interleaved
C4_Witness ==
  /\ entry_count = 1
  /\ exit_count = 1
  /\ \A t \in {1, 2} : Len(observed[t]) = 2
  /\ last_id = 2
  /\ counted_ids = {1, 2}
  /\ EndsInEntry(observed[1], roi_line_y)
  /\ EndsInExit(observed[2], roi_line_y)

(***************************************************************************)
(* C5  Counter monotonicity: both counters start at 0 and never decrease;  *)
(* one observation changes at most one of them, by exactly 1, and only     *)
(* when the crossing rule fires for it; the ENTRY and EXIT conditions are  *)
(* never both true; an observation without event leaves the counters and   *)
(* the counted set unchanged.                                              *)
(***************************************************************************)
C5_Monotone ==
  /\ entry_count = 0
  /\ exit_count = 0
  /\ [][ LET h == track_history'[last_id']
             fires == last_id' \notin counted_ids
                        /\ (EndsInEntry(h, roi_line_y) \/ EndsInExit(h, roi_line_y))
         IN  /\ entry_count' \in {entry_count, entry_count + 1}
             /\ exit_count' \in {exit_count, exit_count + 1}
             /\ entry_count' = entry_count \/ exit_count' = exit_count
             /\ (entry_count' # entry_count \/ exit_count' # exit_count)
                  => (ObsStep /\ fires /\ crossing' # "NONE")
             /\ ObsStep => ~(EndsInEntry(h, roi_line_y) /\ EndsInExit(h, roi_line_y))
             /\ (ObsStep /\ crossing' = "NONE")
                  => /\ entry_count' = entry_count
                     /\ exit_count' = exit_count
                     /\ counted_ids' = counted_ids ]_vars

\* one counter has moved once; a later observation of an uncounted track
\* moved neither
C5_Witness ==
  /\ entry_count + exit_count = 1
  /\ last_id # 0
  /\ last_id \notin counted_ids
  /\ crossing = "NONE"

(***************************************************************************)
(* C6  Boundary on the line: when the previous y of a track equals line_y  *)
(* the observation yields no event and changes no counter, whatever the    *)
(* current y is (so y = [line, line] yields nothing, and a track first     *)
(* seen on the line is not counted when it moves off the line).            *)
(***************************************************************************)
C6_OnTheLine ==
  [][ LET h == track_history'[last_id']
      IN  (ObsStep /\ Len(h) >= 2 /\ YAt(h, Len(h) - 1) = roi_line_y)
            => /\ crossing' = "NONE"
               /\ entry_count' = entry_count
               /\ exit_count' = exit_count
               /\ counted_ids' = counted_ids ]_vars

\* a track first seen on the line has moved past it, uncounted
C6_Witness ==
  /\ last_id # 0
  /\ Len(observed[last_id]) = 2
  /\ YAt(observed[last_id], 1) = roi_line_y
  /\ YAt(observed[last_id], 2) > roi_line_y
  /\ last_id \notin counted_ids
  /\ crossing = "NONE"

(***************************************************************************)
(* C7  Reset.  As claimed: the Counter offers an operation that, from any  *)
(* reachable state, empties every history and the counted set and zeroes   *)
(* both counters, the Counter remaining the same object.                   *)
(***************************************************************************)
C7_ResetOffered ==
  (entry_count + exit_count > 0)
    => ENABLED (NextSessions /\ session' = session /\ Cleared')

(***************************************************************************)
(* C7  as amended: no operation of an existing Counter empties a history   *)
(* or the counted set or lowers a counter; only construction gives the     *)
(* cleared state (summary (0, 0, 0)), and in the new Counter a track_id    *)
(* counted by an earlier one triggers a crossing event again.              *)
(***************************************************************************)
C7_FreshCounterIsClear ==
  [][ /\ session' # session => Cleared'
      /\ session' = session =>
           /\ counted_ids \subseteq counted_ids'
           /\ DOMAIN track_history \subseteq DOMAIN track_history'
           /\ entry_count' >= entry_count
           /\ exit_count' >= exit_count
      /\ LET t == last_id'
             h == track_history'[t]
         IN  ( /\ ObsStep
               /\ t \in prev_counted
               /\ t \notin counted_ids
               /\ EndsInEntry(h, roi_line_y) \/ EndsInExit(h, roi_line_y) )
             => (crossing' # "NONE" /\ t \in counted_ids') ]_vars

\* a track counted by the first Counter is counted again by the second
C7_Witness ==
  /\ session = 2
  /\ last_id \in prev_counted
  /\ last_id \in counted_ids
  /\ crossing # "NONE"

(***************************************************************************)
(* C8  Configuration validation: a roi_position outside [0, 1] or a        *)
(* frame_height <= 0 never gets as far as counting, so no Counter with     *)
(* line_y outside [0, frame_height] is used for counting.                  *)
(***************************************************************************)
C8_ConfigValidated ==
  nobs > 0 =>
    /\ height > 0
    /\ 0 <= roi_position[1] /\ roi_position[1] <= roi_position[2]
    /\ 0 <= roi_line_y /\ roi_line_y <= height

(***************************************************************************)
(* C9  Geometric centre.  As claimed: the position derived from a box      *)
(* (x1, y1, x2, y2) satisfies 2*cx = x1+x2 and 2*cy = y1+y2, so the        *)
(* decision on cy is the decision on the exact centre (compared doubled:   *)
(* y1+y2 against 2*line_y).                                                *)
(***************************************************************************)
ExactDecision(prev_box, box, line) ==
  IF EntryRule(prev_box[2] + prev_box[4], box[2] + box[4], 2 * line) THEN "ENTRY"
  ELSE IF ExitRule(prev_box[2] + prev_box[4], box[2] + box[4], 2 * line) THEN "EXIT"
  ELSE "NONE"

HalfPixelBelowLine(box, line) == box[2] + box[4] = 2 * line + 1

C9_ExactCenter ==
  [][ ObsStep =>
        LET t == last_id'
            box == last_box'[t]
            pos == track_history'[t][Len(track_history'[t])]
        IN  /\ 2 * pos[1] = box[1] + box[3]
            /\ 2 * pos[2] = box[2] + box[4]
            /\ (t \in DOMAIN last_box /\ t \notin counted_ids)
                 => crossing' = ExactDecision(last_box[t], box, roi_line_y) ]_vars

(***************************************************************************)
(* C9  as amended: the position is the centre rounded down to a pixel,     *)
(* 0 <= (x1+x2) - 2*cx <= 1 and 0 <= (y1+y2) - 2*cy <= 1; the ENTRY        *)
(* decision on cy is the ENTRY decision on the exact centre; the EXIT      *)
(* decision is the one on the exact centre unless one of the two centres   *)
(* lies exactly half a pixel past line_y (y1+y2 = 2*line_y + 1).           *)
(***************************************************************************)
C9_FloorCenter ==
  [][ ObsStep =>
        LET t == last_id'
            box == last_box'[t]
            pos == track_history'[t][Len(track_history'[t])]
        IN  /\ (box[1] + box[3]) - 2 * pos[1] \in {0, 1}
            /\ (box[2] + box[4]) - 2 * pos[2] \in {0, 1}
            /\ (t \in DOMAIN last_box /\ t \notin counted_ids) =>
                 LET exact == ExactDecision(last_box[t], box, roi_line_y)
                 IN  /\ crossing' = "ENTRY" <=> exact = "ENTRY"
                     /\ ( ~HalfPixelBelowLine(last_box[t], roi_line_y)
                          /\ ~HalfPixelBelowLine(box, roi_line_y) )
                          => (crossing' = "EXIT" <=> exact = "EXIT") ]_vars

\* an ENTRY decided on a box whose exact centre is not a whole pixel
C9_Witness ==
  /\ crossing = "ENTRY"
  /\ (last_box[last_id][2] + last_box[last_id][4]) % 2 = 1
  /\ YAt(observed[last_id], Len(observed[last_id])) = roi_line_y

(***************************************************************************)
(* C10  entry_count + exit_count is the number of counted track_ids; every *)
(* counted track_id has a history of at least 2 entries; the counted set   *)
(* is a subset of the track_ids that have a history.                       *)
(***************************************************************************)
C10_CountsMatchCounted ==
  /\ entry_count + exit_count = Cardinality(counted_ids)
  /\ counted_ids \subseteq DOMAIN track_history
  /\ \A t \in counted_ids : Len(track_history[t]) >= 2

\* both tracks are counted
C10_Witness ==
  /\ Cardinality(counted_ids) = 2
  /\ entry_count + exit_count = 2

====
